---------------------------- MODULE Spec2Model ----------------------------
(***************************************************************************)
(* Presence and broadcast coordination of the collaborative slide server   *)
(* (src/src/services/database.ts: the DatabaseService class followed by    *)
(* the express / socket.io server).                                        *)
(*                                                                         *)
(* The server is one single-threaded event loop.  Every handler is an      *)
(* async function: it runs synchronously up to an `await` of a store call, *)
(* and is resumed when the store answers.  A store call is modelled by two *)
(* steps: the store executes the request (StoreExec), and the handler is   *)
(* resumed with the answer (Resume...).  Handlers of the same or of        *)
(* different connections interleave at these points only.                  *)
(***************************************************************************)
EXTENDS Integers, FiniteSets, Sequences, TLC

(***************************************************************************)
(* Bounds of the model.                                                    *)
(***************************************************************************)
NumSockets == 2      \* connections that ever open (socket ids are never reused)
NumPres == 2         \* presentations in the store at start, each with its default slide
MaxInFlight == 2     \* handlers that are awaiting the store at the same time
MaxRequests == 3     \* join and leave events and DELETE requests the server accepts in one run
MaxActions == 2      \* pass-through events and PUT requests the server accepts in one run
MaxSweeps == 2       \* times the cleanup timer fires in one run

Socks == 1..NumSockets
Pres == 1..NumPres
Slots == 1..MaxInFlight
SlideIndexes == {0, 1}
\* the nicknames join-presentation payloads carry, as numbers
Nicknames == {1}

\* time is in milliseconds, as Date.now()
MsPerMinute == 60 * 1000
JoinGap == 2 * MsPerMinute
\* the instants at which the clock is looked at after the joins
Instants == {30 * MsPerMinute, 31 * MsPerMinute, 32 * MsPerMinute, 32 * MsPerMinute + 1,
             33 * MsPerMinute}
LastInstant == CHOOSE t \in Instants : \A x \in Instants : x <= t

VARIABLES
    conn,                 \* transport state of each socket: "new", "open", "closed"
    activePresentations,  \* Map presentationId -> Set of socketIds
    userSockets,          \* Map userId -> socketId
    socketUsers,          \* Map socketId -> userId
    ioRooms,              \* socket.io rooms: presentationId -> sockets that socket.join()ed
    dbPres,               \* store: rows of table presentations, by id
    dbUsers,              \* store: rows of table presentation_users
    dbSlides,             \* store: rows of table slides
    dbBlocks,             \* store: rows of table text_blocks
    nextId,               \* store: number of rows ever inserted (uuidv4 = a fresh id)
    tasks,                \* handlers in flight, each suspended at an await
    requests,             \* join and leave events and DELETE requests accepted so far
    actions,              \* pass-through events and PUT requests accepted so far
    now,                  \* Date.now() and the store's NOW(): milliseconds since the start
    sweeps,               \* times the cleanup timer has fired so far
    emitted               \* the events emitted by the last step

vars == <<conn, activePresentations, userSockets, socketUsers, ioRooms,
          dbPres, dbUsers, dbSlides, dbBlocks, nextId, tasks, requests, actions,
          now, sweeps, emitted>>

memVars == <<activePresentations, userSockets, socketUsers, ioRooms>>
dbVars == <<dbPres, dbUsers, dbSlides, dbBlocks, nextId>>
budget == <<requests, actions>>
timerVars == <<now, sweeps>>

(***************************************************************************)
(* JavaScript Map: a function whose domain is the set of keys.             *)
(***************************************************************************)
EmptyMap == [k \in {} |-> 0]
MapHas(m, k) == k \in DOMAIN m
MapSet(m, k, v) == [x \in (DOMAIN m) \cup {k} |-> IF x = k THEN v ELSE m[x]]
MapDelete(m, k) == [x \in (DOMAIN m) \ {k} |-> m[x]]

(***************************************************************************)
(* Events.  `to` is the socket id the event is addressed to and `from` the  *)
(* socket whose handler emits it (0 for an HTTP route); an event addressed *)
(* to a closed socket is emitted but reaches nobody.                       *)
(***************************************************************************)
Event(to, from, ev, arg) == [to |-> to, from |-> from, ev |-> ev, arg |-> arg]

\* the same with io.emit: the event goes to every connection
IoEmit(s, ev, arg) == {Event(x, s, ev, arg) : x \in Socks}

\* socket.emit(event, data)
SocketEmit(s, ev, arg) == {Event(s, s, ev, arg)}

\* the same with io.to(presentationId): the sender is not excepted
IoToRoom(rooms, s, pid, ev, arg) ==
    IF pid \in DOMAIN rooms THEN {Event(x, s, ev, arg) : x \in rooms[pid]} ELSE {}

\* socket.to(presentationId).emit(event, data): the socket.io room, the sender excepted
SocketToRoom(rooms, s, pid, ev, arg) ==
    IF pid \in DOMAIN rooms THEN {Event(x, s, ev, arg) : x \in rooms[pid] \ {s}} ELSE {}

\* the same emitting to the members of every room (io.emit instead of io.to(socketId).emit)
broadcastToEveryRoom(ap, presentationId, from, ev, arg) ==
    {Event(socketId, from, ev, arg) : socketId \in UNION {ap[p] : p \in DOMAIN ap}}

broadcastToPresentation(ap, presentationId, from, ev, arg) ==
    IF MapHas(ap, presentationId)
    THEN {Event(socketId, from, ev, arg) : socketId \in ap[presentationId]}
    ELSE {}

\* the same with a new Set for each call: the room is replaced
addSocketReplacingRoom(ap, presentationId, socketId) ==
    MapSet(ap, presentationId, {socketId})

addSocketToPresentation(ap, presentationId, socketId) ==
    LET ap1 == IF ~MapHas(ap, presentationId) THEN MapSet(ap, presentationId, {}) ELSE ap
    IN  MapSet(ap1, presentationId, ap1[presentationId] \cup {socketId})

\* the same without `if (sockets.size === 0) activePresentations.delete(presentationId)`
removeSocketKeepingRoom(ap, presentationId, socketId) ==
    IF MapHas(ap, presentationId)
    THEN MapSet(ap, presentationId, ap[presentationId] \ {socketId})
    ELSE ap

\* the same without the tests of membership and size: the room is dropped
removeSocketDroppingRoom(ap, presentationId, socketId) ==
    IF MapHas(ap, presentationId)
    THEN MapDelete(ap, presentationId)
    ELSE ap

removeSocketFromPresentation(ap, presentationId, socketId) ==
    IF MapHas(ap, presentationId)
    THEN LET sockets == ap[presentationId] \ {socketId}
         IN  IF Cardinality(sockets) = 0
             THEN MapDelete(ap, presentationId)
             ELSE MapSet(ap, presentationId, sockets)
    ELSE ap


(***************************************************************************)
(* The store: the Supabase tables presentations, slides, text_blocks and   *)
(* presentation_users.  Each operator is the statement a DatabaseService   *)
(* method sends, applied to the table.                                     *)
(***************************************************************************)
PresRow(index, mode) == [current_slide_index |-> index, present_mode |-> mode]
SlideRow(id, presentationId, order) ==
    [id |-> id, presentation_id |-> presentationId, slide_order |-> order]
BlockRow(id, slideId, content) == [id |-> id, slide_id |-> slideId, content |-> content]
UserRow(id, presentationId, nickname, socketId, lastSeen) ==
    [id |-> id, presentation_id |-> presentationId, nickname |-> nickname,
     socket_id |-> socketId, role |-> "viewer", is_active |-> TRUE, last_seen |-> lastSeen]

\* .select(...).eq('id', id).single(): the row, or null (PGRST116) when there is none
getPresentationById(pres, id) == IF MapHas(pres, id) THEN "ok" ELSE "null"

\* const presentation = await db.getPresentationById(presentationId): the join keeps
\* the row as it is read, of which the model follows current_slide_index, and sends
\* it in the snapshot
presentationRead(pres, id) == IF MapHas(pres, id) THEN pres[id].current_slide_index ELSE 0

\* .update(updates).eq('id', id).select().single(): throws when no row matches
updatePresentation(pres, id, field, v) ==
    IF field = "current_slide_index"
    THEN [pres EXCEPT ![id].current_slide_index = v]
    ELSE [pres EXCEPT ![id].present_mode = (v = 1)]

\* the same as an upsert on socket_id: a session of the socket is made active again
addUserReactivating(users, id, presentationId, nickname, socketId) ==
    IF \E r \in users : r.socket_id = socketId
    THEN {IF r.socket_id = socketId THEN [r EXCEPT !.is_active = TRUE] ELSE r : r \in users}
    ELSE users \cup {UserRow(id, presentationId, nickname, socketId, now)}

\* .insert({ id: uuidv4(), presentation_id, ..., socket_id, is_active: true }); the
\* table sets last_seen (DEFAULT NOW()), and no handler of the server writes it again
addUserToPresentation(users, id, presentationId, nickname, socketId) ==
    users \cup {UserRow(id, presentationId, nickname, socketId, now)}

\* .update({ role }).eq('id', userId).eq('presentation_id', presentationId).select().single()
UserRoleMatches(users, presentationId, userId) ==
    {r \in users : r.id = userId /\ r.presentation_id = presentationId}
updateUserRole(users, presentationId, userId, role) ==
    {IF r.id = userId /\ r.presentation_id = presentationId
     THEN [r EXCEPT !.role = role] ELSE r : r \in users}

\* .update({ is_active: false }).eq('id', userId).eq('presentation_id', presentationId)
removeUserFromPresentation(users, presentationId, userId) ==
    {IF r.id = userId /\ r.presentation_id = presentationId
     THEN [r EXCEPT !.is_active = FALSE] ELSE r : r \in users}

\* the same without .eq('socket_id', socketId)
removeEveryUser(users, socketId) == {[r EXCEPT !.is_active = FALSE] : r \in users}

\* .update({ is_active: false }).eq('socket_id', socketId)
removeUserBySocketId(users, socketId) ==
    {IF r.socket_id = socketId THEN [r EXCEPT !.is_active = FALSE] ELSE r : r \in users}

\* .select('*').eq('presentation_id', presentationId).eq('is_active', true)
getPresentationUsers(users, presentationId) ==
    {r.id : r \in {x \in users : x.presentation_id = presentationId /\ x.is_active}}

\* new Date(Date.now() - inactiveThresholdMinutes * 60 * 1000).toISOString(): the
\* instant is written and read back to the millisecond
thresholdTimeAt(at, inactiveThresholdMinutes) == at - inactiveThresholdMinutes * 60 * 1000

\* the same with .lte('last_seen', thresholdTime)
cleanupUsersSeenUpTo(users, thresholdTime) ==
    {IF r.last_seen <= thresholdTime /\ r.is_active
     THEN [r EXCEPT !.is_active = FALSE] ELSE r : r \in users}

\* .update({ is_active: false }).lt('last_seen', thresholdTime).eq('is_active', true)
cleanupInactiveUsers(users, thresholdTime) ==
    {IF r.last_seen < thresholdTime /\ r.is_active
     THEN [r EXCEPT !.is_active = FALSE] ELSE r : r \in users}

\* .insert({ id: uuidv4(), presentation_id: presentationId, title, slide_order: index })
addSlide(slides, id, presentationId, index) == slides \cup {SlideRow(id, presentationId, index)}

\* .delete().eq('id', slideId)
removeSlide(slides, slideId) == {r \in slides : r.id # slideId}

\* .update({ slide_order: newIndex }).eq('id', slideId)
updateSlideIndex(slides, slideId, newIndex) ==
    {IF r.id = slideId THEN [r EXCEPT !.slide_order = newIndex] ELSE r : r \in slides}

\* .insert({ id: uuidv4(), slide_id: slideId, ...textBlock })
addTextBlock(blocks, id, slideId, content) == blocks \cup {BlockRow(id, slideId, content)}

\* .update(updates).eq('id', id).select().single(): throws when no row matches
updateTextBlock(blocks, id, content) ==
    {IF r.id = id THEN [r EXCEPT !.content = content] ELSE r : r \in blocks}

\* .delete().eq('id', textBlockId)
removeTextBlock(blocks, textBlockId) == {r \in blocks : r.id # textBlockId}

\* schema.sql: slides.presentation_id, text_blocks.slide_id and presentation_users.presentation_id
\* are declared REFERENCES ... ON DELETE CASCADE
CascadeBlocks(blocks, slides) == {b \in blocks : b.slide_id \in {r.id : r \in slides}}
deletePresentation(pres, id) == MapDelete(pres, id)
DeleteRowsOf(rows, id) == {r \in rows : r.presentation_id # id}

(***************************************************************************)
(* Handlers in flight.  kind is the event (or route) the handler serves,   *)
(* pc the DatabaseService method it awaits, st is "call" while the store   *)
(* has not executed it and the answer afterwards: "ok", "null" (no such    *)
(* row) or "err" (the method throws).  committed records that the          *)
(* handler's mutation has been applied to the store.                       *)
(***************************************************************************)
Idle == [kind |-> "idle", sock |-> 0, pid |-> 0, uid |-> 0, arg |-> 0, val |-> 0,
         pc |-> "", st |-> "", users |-> {}, committed |-> FALSE]

Task(kind, sock, pid, uid, arg, val, pc) ==
    [kind |-> kind, sock |-> sock, pid |-> pid, uid |-> uid, arg |-> arg, val |-> val,
     pc |-> pc, st |-> "call", users |-> {}, committed |-> FALSE]

Busy == {i \in Slots : tasks[i] # Idle}
HasFree == Busy # Slots
FreeSlot == CHOOSE i \in Slots \ Busy : \A j \in Slots \ Busy : i <= j
Start(t) == tasks' = [tasks EXCEPT ![FreeSlot] = t]
Finish(i) == tasks' = [tasks EXCEPT ![i] = Idle]
Call(i, pc) == tasks' = [tasks EXCEPT ![i].pc = pc, ![i].st = "call"]

\* the server takes one more event from a client, or one more HTTP request
Accept ==
    /\ HasFree
    /\ requests < MaxRequests
    /\ requests' = requests + 1
    /\ UNCHANGED <<actions, timerVars>>

AcceptAction ==
    /\ HasFree
    /\ actions < MaxActions
    /\ actions' = actions + 1
    /\ UNCHANGED <<requests, timerVars>>

\* the same without the await: the handler runs on while the call is in flight
NotAwaited(i, kind, pc) ==
    /\ tasks[i].kind = kind
    /\ tasks[i].pc = pc

\* `await db.method(...)` has returned or thrown: the handler runs on
Returned(i, kind, pc) ==
    /\ tasks[i].kind = kind
    /\ tasks[i].pc = pc
    /\ tasks[i].st # "call"

Init ==
    /\ conn = [s \in Socks |-> "new"]
    /\ activePresentations = EmptyMap
    /\ userSockets = EmptyMap
    /\ socketUsers = EmptyMap
    /\ ioRooms = [p \in Pres |-> {}]
    /\ dbPres = [p \in Pres |-> PresRow(0, FALSE)]
    /\ dbUsers = {}
    /\ dbSlides = {SlideRow(p, p, 0) : p \in Pres}
    /\ dbBlocks = {BlockRow(p, p, 0) : p \in Pres}
    /\ nextId = NumPres
    /\ tasks = [i \in Slots |-> Idle]
    /\ requests = 0
    /\ actions = 0
    /\ now = 0
    /\ sweeps = 0
    /\ emitted = {}

(***************************************************************************)
(* io.on('connection'): a client opens a connection.                       *)
(***************************************************************************)
Connect(s) ==
    /\ conn[s] = "new"
    /\ \A x \in Socks : x < s => conn[x] # "new"      \* socket ids are fresh names
    /\ conn' = [conn EXCEPT ![s] = "open"]
    /\ emitted' = {}
    /\ UNCHANGED <<memVars, dbVars, tasks, budget, timerVars>>

(***************************************************************************)
(* The store answers the call a handler awaits.  Any call may fail with a  *)
(* transient error (StoreFail); StoreExec is the statement executed.       *)
(***************************************************************************)
StoreFail(i) ==
    /\ tasks[i] # Idle
    /\ tasks[i].st = "call"
    /\ tasks' = [tasks EXCEPT ![i].st = "err"]
    /\ emitted' = {}
    /\ UNCHANGED <<conn, memVars, dbVars, budget, timerVars>>

Answer(i, st) == tasks' = [tasks EXCEPT ![i].st = st]
Commit(i) == tasks' = [tasks EXCEPT ![i].st = "ok", ![i].committed = TRUE]
CommitNew(i) == tasks' = [tasks EXCEPT ![i].st = "ok", ![i].committed = TRUE, ![i].uid = nextId + 1]

\* role: 'owner' | 'editor' | 'viewer', as the number a payload carries in val
RoleName(v) == IF v = 0 THEN "viewer" ELSE IF v = 1 THEN "editor" ELSE "owner"

\* the presentations column a handler's updatePresentation call sets
UpdatedField(kind) ==
    IF kind \in {"enter-present-mode", "exit-present-mode"} THEN "present_mode"
    ELSE "current_slide_index"

StoreExec(i) ==
    LET t == tasks[i] IN
    /\ t # Idle
    /\ t.st = "call"
    /\ emitted' = {}
    /\ UNCHANGED <<conn, memVars, budget, timerVars>>
    /\ CASE t.pc = "getPresentationById" ->
              /\ tasks' = [tasks EXCEPT ![i].st = getPresentationById(dbPres, t.pid),
                                        ![i].arg = IF t.kind = "join-presentation"
                                                   THEN presentationRead(dbPres, t.pid)
                                                   ELSE @]
              /\ UNCHANGED dbVars
         [] t.pc = "addUserToPresentation" ->
              IF MapHas(dbPres, t.pid)
              THEN /\ dbUsers' = addUserToPresentation(dbUsers, nextId + 1, t.pid, t.val, t.sock)
                   /\ nextId' = nextId + 1
                   /\ CommitNew(i)
                   /\ UNCHANGED <<dbPres, dbSlides, dbBlocks>>
              ELSE /\ Answer(i, "err")
                   /\ UNCHANGED dbVars
         [] t.pc = "getPresentationUsers" ->
              /\ tasks' = [tasks EXCEPT ![i].st = "ok",
                                        ![i].users = getPresentationUsers(dbUsers, t.pid)]
              /\ UNCHANGED dbVars
         [] t.pc = "removeUserFromPresentation" ->
              /\ dbUsers' = removeUserFromPresentation(dbUsers, t.pid, t.uid)
              /\ Commit(i)
              /\ UNCHANGED <<dbPres, dbSlides, dbBlocks, nextId>>
         [] t.pc = "removeUserBySocketId" ->
              /\ dbUsers' = removeUserBySocketId(dbUsers, t.sock)
              /\ Commit(i)
              /\ UNCHANGED <<dbPres, dbSlides, dbBlocks, nextId>>
         [] t.pc = "cleanupInactiveUsers" ->
              /\ dbUsers' = cleanupInactiveUsers(dbUsers, t.val)
              /\ Commit(i)
              /\ UNCHANGED <<dbPres, dbSlides, dbBlocks, nextId>>
         [] t.pc = "updateUserRole" ->
              IF UserRoleMatches(dbUsers, t.pid, t.uid) # {}
              THEN /\ dbUsers' = updateUserRole(dbUsers, t.pid, t.uid, RoleName(t.val))
                   /\ Commit(i)
                   /\ UNCHANGED <<dbPres, dbSlides, dbBlocks, nextId>>
              ELSE /\ Answer(i, "err")
                   /\ UNCHANGED dbVars
         [] t.pc = "deletePresentation" ->
              /\ dbPres' = deletePresentation(dbPres, t.pid)
              /\ dbUsers' = DeleteRowsOf(dbUsers, t.pid)
              /\ dbSlides' = DeleteRowsOf(dbSlides, t.pid)
              /\ dbBlocks' = CascadeBlocks(dbBlocks, dbSlides')
              /\ Commit(i)
              /\ UNCHANGED nextId
         [] t.pc = "updatePresentation" ->
              IF MapHas(dbPres, t.pid)
              THEN /\ dbPres' = updatePresentation(dbPres, t.pid, UpdatedField(t.kind), t.val)
                   /\ Commit(i)
                   /\ UNCHANGED <<dbUsers, dbSlides, dbBlocks, nextId>>
              ELSE /\ Answer(i, "err")
                   /\ UNCHANGED dbVars
         [] t.pc = "addSlide" ->
              IF MapHas(dbPres, t.pid)
              THEN /\ dbSlides' = addSlide(dbSlides, nextId + 1, t.pid, t.val)
                   /\ nextId' = nextId + 1
                   /\ tasks' = [tasks EXCEPT ![i].st = "ok", ![i].committed = TRUE,
                                             ![i].arg = nextId + 1]
                   /\ UNCHANGED <<dbPres, dbUsers, dbBlocks>>
              ELSE /\ Answer(i, "err")
                   /\ UNCHANGED dbVars
         [] t.pc = "removeSlide" ->
              /\ dbSlides' = removeSlide(dbSlides, t.arg)
              /\ dbBlocks' = CascadeBlocks(dbBlocks, dbSlides')
              /\ Commit(i)
              /\ UNCHANGED <<dbPres, dbUsers, nextId>>
         [] t.pc = "updateSlideIndex" ->
              /\ dbSlides' = updateSlideIndex(dbSlides, t.arg, t.val)
              /\ Commit(i)
              /\ UNCHANGED <<dbPres, dbUsers, dbBlocks, nextId>>
         [] t.pc = "addTextBlock" ->
              IF t.arg \in {r.id : r \in dbSlides}
              THEN /\ dbBlocks' = addTextBlock(dbBlocks, nextId + 1, t.arg, t.val)
                   /\ nextId' = nextId + 1
                   /\ tasks' = [tasks EXCEPT ![i].st = "ok", ![i].committed = TRUE,
                                             ![i].arg = nextId + 1]
                   /\ UNCHANGED <<dbPres, dbUsers, dbSlides>>
              ELSE /\ Answer(i, "err")
                   /\ UNCHANGED dbVars
         [] t.pc = "updateTextBlock" ->
              IF t.arg \in {r.id : r \in dbBlocks}
              THEN /\ dbBlocks' = updateTextBlock(dbBlocks, t.arg, t.val)
                   /\ Commit(i)
                   /\ UNCHANGED <<dbPres, dbUsers, dbSlides, nextId>>
              ELSE /\ Answer(i, "err")
                   /\ UNCHANGED dbVars
         [] t.pc = "removeTextBlock" ->
              /\ dbBlocks' = removeTextBlock(dbBlocks, t.arg)
              /\ Commit(i)
              /\ UNCHANGED <<dbPres, dbUsers, dbSlides, nextId>>

(***************************************************************************)
(* socket.on('join-presentation')                                          *)
(***************************************************************************)
JoinStart(s, p, nickname) ==
    /\ conn[s] = "open"
    /\ Accept
    /\ Start(Task("join-presentation", s, p, 0, 0, nickname, "getPresentationById"))
    /\ emitted' = {}
    /\ UNCHANGED <<conn, memVars, dbVars>>

\* the same without the null check
PresentationAssumed(st) == TRUE

\* if (!presentation) { socket.emit('error', ...); return; }
PresentationFound(st) == st = "ok"

JoinGotPresentation(i) ==
    LET t == tasks[i] IN
    /\ Returned(i, "join-presentation", "getPresentationById")
    /\ IF t.st = "err"
       THEN /\ emitted' = SocketEmit(t.sock, "error: Failed to join presentation", 0)
            /\ Finish(i)
       ELSE IF ~PresentationFound(t.st)
       THEN /\ emitted' = SocketEmit(t.sock, "error: Presentation not found", 0)
            /\ Finish(i)
       ELSE /\ emitted' = {}
            /\ Call(i, "addUserToPresentation")
    /\ UNCHANGED <<conn, memVars, dbVars, budget, timerVars>>

JoinAddedUser(i) ==
    LET t == tasks[i] IN
    /\ Returned(i, "join-presentation", "addUserToPresentation")
    /\ IF t.st = "err"
       THEN /\ emitted' = SocketEmit(t.sock, "error: Failed to join presentation", 0)
            /\ Finish(i)
            /\ UNCHANGED memVars
       ELSE /\ activePresentations' = addSocketToPresentation(activePresentations, t.pid, t.sock)
            /\ userSockets' = MapSet(userSockets, t.uid, t.sock)
            /\ socketUsers' = MapSet(socketUsers, t.sock, t.uid)
            /\ ioRooms' = [ioRooms EXCEPT ![t.pid] = @ \cup {t.sock}]
            /\ emitted' = {}
            /\ Call(i, "getPresentationUsers")
    /\ UNCHANGED <<conn, dbVars, budget, timerVars>>

JoinGotUsers(i) ==
    LET t == tasks[i] IN
    /\ Returned(i, "join-presentation", "getPresentationUsers")
    /\ IF t.st = "err"
       THEN emitted' = SocketEmit(t.sock, "error: Failed to join presentation", 0)
       ELSE emitted' = SocketEmit(t.sock, "presentation-joined", t.uid)
                       \cup SocketToRoom(ioRooms, t.sock, t.pid, "user-joined", t.uid)
    /\ Finish(i)
    /\ UNCHANGED <<conn, memVars, dbVars, budget, timerVars>>

(***************************************************************************)
(* socket.on('leave-presentation'): presentationId and userId are whatever *)
(* the client sends.                                                       *)
(***************************************************************************)
LeaveStart(s, p, u) ==
    /\ conn[s] = "open"
    /\ Accept
    /\ Start(Task("leave-presentation", s, p, u, 0, 0, "removeUserFromPresentation"))
    /\ emitted' = {}
    /\ UNCHANGED <<conn, memVars, dbVars>>

LeaveRemoved(i) ==
    LET t == tasks[i] IN
    /\ Returned(i, "leave-presentation", "removeUserFromPresentation")
    /\ IF t.st = "err"
       THEN /\ emitted' = {}
            /\ UNCHANGED memVars
       ELSE /\ activePresentations' = removeSocketFromPresentation(activePresentations, t.pid, t.sock)
            /\ userSockets' = MapDelete(userSockets, t.uid)
            /\ socketUsers' = MapDelete(socketUsers, t.sock)
            /\ ioRooms' = [ioRooms EXCEPT ![t.pid] = @ \ {t.sock}]
            /\ emitted' = SocketToRoom(ioRooms', t.sock, t.pid, "user-left", t.uid)
    /\ Finish(i)
    /\ UNCHANGED <<conn, dbVars, budget, timerVars>>

(***************************************************************************)
(* socket.on('disconnect'): the transport has closed, and socket.io has    *)
(* taken the socket out of its rooms before the handler runs.              *)
(***************************************************************************)
\* const userId = socketUsers.get(socket.id): 0 stands for undefined
userIdOf(su, socketId) == IF MapHas(su, socketId) THEN su[socketId] ELSE 0

\* the same without the test of userId
SessionAssumed(userId) == TRUE

\* if (userId && db)
HasSession(userId) == userId # 0

Disconnect(s) ==
    /\ conn[s] = "open"
    /\ conn' = [conn EXCEPT ![s] = "closed"]
    /\ ioRooms' = [p \in Pres |-> ioRooms[p] \ {s}]
    /\ emitted' = {}
    /\ IF HasSession(userIdOf(socketUsers, s))
       THEN /\ HasFree
            /\ Start(Task("disconnect", s, 0, userIdOf(socketUsers, s), 0, 0, "removeUserBySocketId"))
       ELSE UNCHANGED tasks
    /\ UNCHANGED <<activePresentations, userSockets, socketUsers, dbVars, budget, timerVars>>

\* for (const [presentationId, sockets] of activePresentations) if (sockets.has(socket.id)) ...
RoomsOf(ap, s) == {p \in DOMAIN ap : s \in ap[p]}

RECURSIVE RemoveFromAll(_, _, _)
RemoveFromAll(ap, ps, s) ==
    IF ps = {} THEN ap
    ELSE LET p == CHOOSE x \in ps : TRUE
         IN  RemoveFromAll(removeSocketFromPresentation(ap, p, s), ps \ {p}, s)

DisconnectRemoved(i) ==
    LET t == tasks[i] IN
    /\ Returned(i, "disconnect", "removeUserBySocketId")
    /\ IF t.st = "err"
       THEN /\ emitted' = {}
            /\ UNCHANGED memVars
       ELSE /\ userSockets' = MapDelete(userSockets, t.uid)
            /\ socketUsers' = MapDelete(socketUsers, t.sock)
            /\ activePresentations' =
                   RemoveFromAll(activePresentations, RoomsOf(activePresentations, t.sock), t.sock)
            /\ emitted' = UNION {SocketToRoom(ioRooms, t.sock, p, "user-left", t.uid) :
                                     p \in RoomsOf(activePresentations, t.sock)}
            /\ UNCHANGED ioRooms
    /\ Finish(i)
    /\ UNCHANGED <<conn, dbVars, budget, timerVars>>

(***************************************************************************)
(* app.delete('/api/presentations/:id')                                    *)
(***************************************************************************)
HttpDeleteStart(p) ==
    /\ Accept
    /\ Start(Task("DELETE", 0, p, 0, 0, 0, "deletePresentation"))
    /\ emitted' = {}
    /\ UNCHANGED <<conn, memVars, dbVars>>

HttpDeleteDone(i) ==
    LET t == tasks[i] IN
    /\ Returned(i, "DELETE", "deletePresentation")
    /\ IF t.st = "err"
       THEN /\ emitted' = {}
            /\ UNCHANGED activePresentations
       ELSE /\ emitted' = IF MapHas(activePresentations, t.pid)
                           THEN {Event(socketId, 0, "presentation-deleted", t.pid) :
                                     socketId \in activePresentations[t.pid]}
                           ELSE {}
            /\ activePresentations' = MapDelete(activePresentations, t.pid)
    /\ Finish(i)
    /\ UNCHANGED <<conn, userSockets, socketUsers, ioRooms, dbVars, budget, timerVars>>

(***************************************************************************)
(* app.put('/api/presentations/:id')                                       *)
(***************************************************************************)
HttpPutStart(p, v) ==
    /\ AcceptAction
    /\ Start(Task("PUT", 0, p, 0, 0, v, "updatePresentation"))
    /\ emitted' = {}
    /\ UNCHANGED <<conn, memVars, dbVars>>

HttpPutDone(i) ==
    LET t == tasks[i] IN
    /\ Returned(i, "PUT", "updatePresentation")
    /\ IF t.st = "err"
       THEN emitted' = {}
       ELSE emitted' = broadcastToPresentation(activePresentations, t.pid, 0,
                                               "presentation-updated", t.val)
    /\ Finish(i)
    /\ UNCHANGED <<conn, memVars, dbVars, budget, timerVars>>

(***************************************************************************)
(* setInterval(async () => { ... await db.cleanupInactiveUsers(30) ... }):  *)
(* the timer fires, whatever the earlier sweeps did; the sweep computes its *)
(* threshold from the clock (arg holds the clock's reading, val the         *)
(* threshold) and awaits one update of presentation_users.                 *)
(* When the update fails the sweep writes a line to the console (shown in  *)
(* emitted as an event to nobody) and returns.                             *)
(***************************************************************************)
InactiveThresholdMinutes == 30

ReaperStart ==
    /\ HasFree
    /\ sweeps < MaxSweeps
    /\ sweeps' = sweeps + 1
    /\ Start(Task("reaper", 0, 0, 0, now, thresholdTimeAt(now, InactiveThresholdMinutes),
                  "cleanupInactiveUsers"))
    /\ emitted' = {}
    /\ UNCHANGED <<conn, memVars, dbVars, requests, actions, now>>

\* the same with the timer cleared when a sweep has failed
ReaperDoneGivingUp(i) ==
    LET t == tasks[i] IN
    /\ Returned(i, "reaper", "cleanupInactiveUsers")
    /\ IF t.st = "err"
       THEN /\ emitted' = {Event(0, 0, "console.error: Failed to cleanup inactive users", 0)}
            /\ sweeps' = MaxSweeps
       ELSE /\ emitted' = {}
            /\ UNCHANGED sweeps
    /\ Finish(i)
    /\ UNCHANGED <<conn, memVars, dbVars, budget, now>>

\* the same with the registry reconciled: the bindings of inactive sessions dropped
ReaperDoneReconciling(i) ==
    LET t == tasks[i] IN
    /\ Returned(i, "reaper", "cleanupInactiveUsers")
    /\ socketUsers' = [s \in {x \in DOMAIN socketUsers :
                                  \E r \in dbUsers : r.id = socketUsers[x] /\ r.is_active}
                          |-> socketUsers[s]]
    /\ emitted' = {}
    /\ Finish(i)
    /\ UNCHANGED <<conn, activePresentations, userSockets, ioRooms, dbVars, budget, timerVars>>

ReaperDone(i) ==
    LET t == tasks[i] IN
    /\ Returned(i, "reaper", "cleanupInactiveUsers")
    /\ IF t.st = "err"
       THEN emitted' = {Event(0, 0, "console.error: Failed to cleanup inactive users", 0)}
       ELSE emitted' = {}
    /\ Finish(i)
    /\ UNCHANGED <<conn, memVars, dbVars, budget, timerVars>>

\* time passes: the clock moves on to a later instant
Tick(t) ==
    /\ t > now
    /\ now' = t
    /\ emitted' = {}
    /\ UNCHANGED <<conn, memVars, dbVars, tasks, budget, sweeps>>

\* leave-presentation as the client sends it: for its own room and session
Leave(s) ==
    \E p \in RoomsOf(activePresentations, s) :
        /\ MapHas(socketUsers, s)
        /\ LeaveStart(s, p, socketUsers[s])

(***************************************************************************)
(* The pass-through handlers: socket.on('add-slide') ... ('exit-present-   *)
(* mode').  Each awaits one DatabaseService method and then either         *)
(* broadcasts to the presentation the payload names, or, when the method   *)
(* threw, sends an error to the sender.  No handler checks that the sender *)
(* has joined the presentation.                                            *)
(***************************************************************************)
Handlers ==
    { [kind |-> "add-slide", method |-> "addSlide",
       applied |-> "slide-added", failed |-> "error: Failed to add slide"],
      [kind |-> "remove-slide", method |-> "removeSlide",
       applied |-> "slide-removed", failed |-> "error: Failed to remove slide"],
      [kind |-> "update-slide-index", method |-> "updateSlideIndex",
       applied |-> "slide-index-updated", failed |-> "error: Failed to update slide index"],
      [kind |-> "update-current-slide", method |-> "updatePresentation",
       applied |-> "current-slide-updated", failed |-> "error: Failed to update current slide"],
      [kind |-> "add-text-block", method |-> "addTextBlock",
       applied |-> "text-block-added", failed |-> "error: Failed to add text block"],
      [kind |-> "update-text-block", method |-> "updateTextBlock",
       applied |-> "text-block-updated", failed |-> "error: Failed to update text block"],
      [kind |-> "remove-text-block", method |-> "removeTextBlock",
       applied |-> "text-block-removed", failed |-> "error: Failed to remove text block"],
      [kind |-> "update-user-role", method |-> "updateUserRole",
       applied |-> "user-role-updated", failed |-> "error: Failed to update user role"],
      [kind |-> "enter-present-mode", method |-> "updatePresentation",
       applied |-> "present-mode-entered", failed |-> "error: Failed to enter present mode"],
      [kind |-> "exit-present-mode", method |-> "updatePresentation",
       applied |-> "present-mode-exited", failed |-> "error: Failed to exit present mode"] }

PassThroughKinds == {h.kind : h \in Handlers}
HandlerOf(kind) == CHOOSE h \in Handlers : h.kind = kind
AppliedEvents == {h.applied : h \in Handlers}

\* the data of the broadcast: the entity or the value the action is about
Payload(t) ==
    IF t.kind = "update-user-role" THEN t.uid
    ELSE IF t.kind = "update-current-slide" THEN t.val
    ELSE t.arg

\* ids a client can name: those of the rows it has been shown, or one of no row
SlideIds == {r.id : r \in dbSlides} \cup {0}
BlockIds == {r.id : r \in dbBlocks} \cup {0}
UserIds == {r.id : r \in dbUsers} \cup DOMAIN userSockets \cup {0}

PassThroughStart(kind, s, p, u, a, v) ==
    /\ conn[s] = "open"
    /\ AcceptAction
    /\ Start(Task(kind, s, p, u, a, v, HandlerOf(kind).method))
    /\ emitted' = {}
    /\ UNCHANGED <<conn, memVars, dbVars>>

AddSlide(s, p, index) == PassThroughStart("add-slide", s, p, 0, 0, index)
RemoveSlide(s, p, slideId) == PassThroughStart("remove-slide", s, p, 0, slideId, 0)
UpdateSlideIndex(s, p, slideId, newIndex) ==
    PassThroughStart("update-slide-index", s, p, 0, slideId, newIndex)
UpdateCurrentSlide(s, p, slideIndex) == PassThroughStart("update-current-slide", s, p, 0, 0, slideIndex)
AddTextBlock(s, p, slideId) == PassThroughStart("add-text-block", s, p, 0, slideId, 0)
UpdateTextBlock(s, p, textBlockId) == PassThroughStart("update-text-block", s, p, 0, textBlockId, 1)
RemoveTextBlock(s, p, textBlockId) == PassThroughStart("remove-text-block", s, p, 0, textBlockId, 0)
UpdateUserRole(s, p, userId, role) == PassThroughStart("update-user-role", s, p, userId, 0, role)
EnterPresentMode(s, p) == PassThroughStart("enter-present-mode", s, p, 0, 0, 1)
ExitPresentMode(s, p) == PassThroughStart("exit-present-mode", s, p, 0, 0, 0)

\* the mutation has returned: broadcast, or report the failure to the sender
PassThroughDone(i) ==
    LET t == tasks[i] IN
    /\ t.kind \in PassThroughKinds \ {"update-slide-index"}
    /\ Returned(i, t.kind, HandlerOf(t.kind).method)
    /\ IF t.st = "err"
       THEN emitted' = SocketEmit(t.sock, HandlerOf(t.kind).failed, 0)
       ELSE emitted' = broadcastToPresentation(activePresentations, t.pid, t.sock,
                                               HandlerOf(t.kind).applied, Payload(t))
    /\ Finish(i)
    /\ UNCHANGED <<conn, memVars, dbVars, budget, timerVars>>

\* update-slide-index reads the presentation back before it broadcasts
SlideIndexUpdated(i) ==
    LET t == tasks[i] IN
    /\ Returned(i, "update-slide-index", "updateSlideIndex")
    /\ IF t.st = "err"
       THEN /\ emitted' = SocketEmit(t.sock, HandlerOf(t.kind).failed, 0)
            /\ Finish(i)
       ELSE /\ emitted' = {}
            /\ Call(i, "getPresentationById")
    /\ UNCHANGED <<conn, memVars, dbVars, budget, timerVars>>

SlideIndexRefetched(i) ==
    LET t == tasks[i] IN
    /\ Returned(i, "update-slide-index", "getPresentationById")
    /\ IF t.st = "err"
       THEN emitted' = SocketEmit(t.sock, HandlerOf(t.kind).failed, 0)
       ELSE IF PresentationFound(t.st)
       THEN emitted' = broadcastToPresentation(activePresentations, t.pid, t.sock,
                                               HandlerOf(t.kind).applied, Payload(t))
       ELSE emitted' = {}
    /\ Finish(i)
    /\ UNCHANGED <<conn, memVars, dbVars, budget, timerVars>>

(***************************************************************************)
(* The server.  The presence handlers write the registry, the room index   *)
(* and table presentation_users; the pass-through handlers and PUT write   *)
(* only the other tables and read the room index.  Spec is the server      *)
(* under the presence events and DELETE, from start.                       *)
(***************************************************************************)
StoreAnswers ==
    \/ \E i \in Slots : StoreExec(i)
    \/ \E i \in Slots : StoreFail(i)

Next ==
    \/ \E s \in Socks : Connect(s)
    \/ \E s \in Socks : Disconnect(s)
    \/ \E s \in Socks, p \in Pres, n \in Nicknames : JoinStart(s, p, n)
    \/ \E s \in Socks, p \in Pres, u \in UserIds : LeaveStart(s, p, u)
    \/ \E p \in Pres : HttpDeleteStart(p)
    \/ StoreAnswers
    \/ \E i \in Slots : JoinGotPresentation(i)
    \/ \E i \in Slots : JoinAddedUser(i)
    \/ \E i \in Slots : JoinGotUsers(i)
    \/ \E i \in Slots : LeaveRemoved(i)
    \/ \E i \in Slots : DisconnectRemoved(i)
    \/ \E i \in Slots : HttpDeleteDone(i)

Spec == Init /\ [][Next]_vars

(***************************************************************************)
(* SpecActions is the server under one pass-through event or PUT and the   *)
(* disconnects, started in a settled room layout: every connection is open *)
(* and has either not joined or completed one join-presentation, the joins *)
(* having run one after the other in the order of the socket ids.          *)
(***************************************************************************)
Layouts == [Socks -> Pres \cup {0}]
JoinedIn(layout) == {s \in Socks : layout[s] # 0}
UidIn(layout, s) == NumPres + Cardinality({x \in JoinedIn(layout) : x <= s})
RoomIn(layout, p) == {s \in Socks : layout[s] = p}
NicknameIn(layout, s) == CHOOSE n \in Nicknames : TRUE
\* the joins of a layout are JoinGap apart, the last of them JoinGap ago
JoinedAt(layout, s) == JoinGap * (UidIn(layout, s) - NumPres - 1)

\* the state in which the joins of a layout have completed
SettledIn(layout) ==
    /\ conn = [s \in Socks |-> "open"]
    /\ activePresentations =
           [p \in {layout[s] : s \in JoinedIn(layout)} |-> RoomIn(layout, p)]
    /\ socketUsers = [s \in JoinedIn(layout) |-> UidIn(layout, s)]
    /\ userSockets = [u \in {UidIn(layout, s) : s \in JoinedIn(layout)} |->
                         CHOOSE s \in JoinedIn(layout) : UidIn(layout, s) = u]
    /\ ioRooms = [p \in Pres |-> RoomIn(layout, p)]
    /\ dbPres = [p \in Pres |-> PresRow(0, FALSE)]
    /\ dbUsers = {UserRow(UidIn(layout, s), layout[s], NicknameIn(layout, s), s, JoinedAt(layout, s)) :
                       s \in JoinedIn(layout)}
    /\ dbSlides = {SlideRow(p, p, 0) : p \in Pres}
    /\ dbBlocks = {BlockRow(p, p, 0) : p \in Pres}
    /\ nextId = NumPres + Cardinality(JoinedIn(layout))
    /\ tasks = [i \in Slots |-> Idle]
    /\ now = JoinGap * Cardinality(JoinedIn(layout))
    /\ emitted = {}

InitActions ==
    \E layout \in Layouts :
        /\ SettledIn(layout)
        /\ requests = Cardinality(JoinedIn(layout))
        /\ actions = MaxActions - 1
        /\ sweeps = 0

NextActions ==
    \/ \E s \in Socks : Disconnect(s)
    \/ \E s \in Socks, p \in Pres, v \in SlideIndexes : AddSlide(s, p, v)
    \/ \E s \in Socks, p \in Pres, a \in SlideIds : RemoveSlide(s, p, a)
    \/ \E s \in Socks, p \in Pres, a \in SlideIds, v \in SlideIndexes : UpdateSlideIndex(s, p, a, v)
    \/ \E s \in Socks, p \in Pres, v \in SlideIndexes : UpdateCurrentSlide(s, p, v)
    \/ \E s \in Socks, p \in Pres, a \in SlideIds : AddTextBlock(s, p, a)
    \/ \E s \in Socks, p \in Pres, a \in BlockIds : UpdateTextBlock(s, p, a)
    \/ \E s \in Socks, p \in Pres, a \in BlockIds : RemoveTextBlock(s, p, a)
    \/ \E s \in Socks, p \in Pres, u \in UserIds, v \in {0, 1, 2} : UpdateUserRole(s, p, u, v)
    \/ \E s \in Socks, p \in Pres : EnterPresentMode(s, p)
    \/ \E s \in Socks, p \in Pres : ExitPresentMode(s, p)
    \/ \E p \in Pres, v \in SlideIndexes : HttpPutStart(p, v)
    \/ StoreAnswers
    \/ \E i \in Slots : DisconnectRemoved(i)
    \/ \E i \in Slots : PassThroughDone(i)
    \/ \E i \in Slots : SlideIndexUpdated(i)
    \/ \E i \in Slots : SlideIndexRefetched(i)
    \/ \E i \in Slots : HttpPutDone(i)

SpecActions == InitActions /\ [][NextActions]_vars

(***************************************************************************)
(* SpecErrors is the server under one more join-presentation next to the   *)
(* pass-through events, started in a settled room layout.                  *)
(***************************************************************************)
InitErrors ==
    \E layout \in Layouts :
        /\ SettledIn(layout)
        /\ requests = MaxRequests - 1
        /\ actions = MaxActions - 1
        /\ sweeps = 0

NextErrors ==
    \/ \E s \in Socks, p \in Pres, n \in Nicknames : JoinStart(s, p, n)
    \/ \E s \in Socks, p \in Pres, v \in SlideIndexes : AddSlide(s, p, v)
    \/ \E s \in Socks, p \in Pres, a \in SlideIds : RemoveSlide(s, p, a)
    \/ \E s \in Socks, p \in Pres, a \in SlideIds, v \in SlideIndexes : UpdateSlideIndex(s, p, a, v)
    \/ \E s \in Socks, p \in Pres, v \in SlideIndexes : UpdateCurrentSlide(s, p, v)
    \/ \E s \in Socks, p \in Pres, a \in SlideIds : AddTextBlock(s, p, a)
    \/ \E s \in Socks, p \in Pres, a \in BlockIds : UpdateTextBlock(s, p, a)
    \/ \E s \in Socks, p \in Pres, a \in BlockIds : RemoveTextBlock(s, p, a)
    \/ \E s \in Socks, p \in Pres, u \in UserIds, v \in {0, 1, 2} : UpdateUserRole(s, p, u, v)
    \/ \E s \in Socks, p \in Pres : EnterPresentMode(s, p)
    \/ \E s \in Socks, p \in Pres : ExitPresentMode(s, p)
    \/ StoreAnswers
    \/ \E i \in Slots : JoinGotPresentation(i)
    \/ \E i \in Slots : JoinAddedUser(i)
    \/ \E i \in Slots : JoinGotUsers(i)
    \/ \E i \in Slots : PassThroughDone(i)
    \/ \E i \in Slots : SlideIndexUpdated(i)
    \/ \E i \in Slots : SlideIndexRefetched(i)

SpecErrors == InitErrors /\ [][NextErrors]_vars

(***************************************************************************)
(* SpecSweep is the cleanup timer alone over the passing of time, started  *)
(* in a settled room layout whose sessions were last seen JoinGap apart.   *)
(***************************************************************************)
NextSweep ==
    \/ \E t \in Instants : Tick(t)
    \/ ReaperStart
    \/ \E i \in Slots : ReaperDone(i)
    \/ StoreAnswers

SpecSweep == InitActions /\ [][NextSweep]_vars

(***************************************************************************)
(* SpecReaper is the server under the cleanup timer, next to one more join *)
(* or leave and the disconnects, started in a settled room layout; time    *)
(* passes once, to the instant at which the sessions of the layout are     *)
(* older than the threshold.                                               *)
(***************************************************************************)
NextReaper ==
    \/ Tick(LastInstant)
    \/ ReaperStart
    \/ \E i \in Slots : ReaperDone(i)
    \/ StoreAnswers
    \/ \E s \in Socks : Disconnect(s)
    \/ \E s \in Socks, p \in Pres, n \in Nicknames : JoinStart(s, p, n)
    \/ \E s \in Socks : Leave(s)
    \/ \E i \in Slots : JoinGotPresentation(i)
    \/ \E i \in Slots : JoinAddedUser(i)
    \/ \E i \in Slots : JoinGotUsers(i)
    \/ \E i \in Slots : LeaveRemoved(i)
    \/ \E i \in Slots : DisconnectRemoved(i)

SpecReaper == InitErrors /\ [][NextReaper]_vars

(***************************************************************************)
(* SpecSessions is the server under everything that writes table           *)
(* presentation_users but the cascade of DELETE: one sweep of the cleanup   *)
(* timer, one more join or leave, the disconnects and one update-user-role *)
(* for a session some connection is bound to, started in a settled room    *)
(* layout.  The store executes every call: a call that fails writes        *)
(* nothing.                                                                *)
(***************************************************************************)
InitSessions ==
    \E layout \in Layouts :
        /\ SettledIn(layout)
        /\ requests = MaxRequests - 1
        /\ actions = MaxActions - 1
        /\ sweeps = MaxSweeps - 1

NextSessions ==
    \/ Tick(LastInstant)
    \/ ReaperStart
    \/ \E i \in Slots : ReaperDone(i)
    \/ \E i \in Slots : StoreExec(i)
    \/ \E s \in Socks : Disconnect(s)
    \/ \E s \in Socks, p \in Pres, n \in Nicknames : JoinStart(s, p, n)
    \/ \E s \in Socks : Leave(s)
    \/ \E i \in Slots : JoinGotPresentation(i)
    \/ \E i \in Slots : JoinAddedUser(i)
    \/ \E i \in Slots : JoinGotUsers(i)
    \/ \E i \in Slots : LeaveRemoved(i)
    \/ \E i \in Slots : DisconnectRemoved(i)
    \/ \E s \in Socks, p \in Pres, u \in DOMAIN userSockets : UpdateUserRole(s, p, u, 1)
    \/ \E i \in Slots : PassThroughDone(i)

SpecSessions == InitSessions /\ [][NextSessions]_vars

(***************************************************************************)
(* SpecOrder is the server under update-current-slide events alone,        *)
(* started in a settled room layout: a presenter steps through the slides, *)
(* the k-th event of a run carrying slide index k, so that the index an    *)
(* event carries tells the order in which the events arrived.  SpecStall   *)
(* is the same with a store that answers every call of the connections     *)
(* other than connection 1 and resumes their handlers, and may leave a     *)
(* call of connection 1 unanswered for ever.                               *)
(***************************************************************************)
InitOrder ==
    \E layout \in Layouts :
        /\ SettledIn(layout)
        /\ requests = MaxRequests
        /\ actions = 0
        /\ sweeps = 0

NextOrder ==
    \/ \E s \in Socks, p \in Pres : UpdateCurrentSlide(s, p, actions)
    \/ StoreAnswers
    \/ \E i \in Slots : PassThroughDone(i)

SpecOrder == InitOrder /\ [][NextOrder]_vars

\* the same with one store connection that answers the calls in the order they
\* were made
AnswersInTurnTo(s) ==
    \E i \in Slots :
        /\ tasks[i].sock = s
        /\ \A j \in Slots : tasks[j].st = "call" => tasks[j].val >= tasks[i].val
        /\ StoreExec(i)

\* the store executes a call of a handler of connection s: each call is a request
\* of its own
AnswersTo(s) == \E i \in Slots : tasks[i].sock = s /\ StoreExec(i)

\* the event loop resumes a handler of connection s whose await has settled
ResumesOf(s) == \E i \in Slots : tasks[i].sock = s /\ PassThroughDone(i)

SpecStall ==
    /\ InitOrder
    /\ [][NextOrder]_vars
    /\ \A s \in Socks \ {1} : WF_vars(AnswersTo(s)) /\ WF_vars(ResumesOf(s))

(***************************************************************************)
(* Properties.                                                             *)
(***************************************************************************)
Members(ap, p) == IF MapHas(ap, p) THEN ap[p] ELSE {}
\* the events sent with broadcastToPresentation
BroadcastEvents == AppliedEvents \cup {"presentation-updated"}
ActiveRows(s) == {r \in dbUsers : r.socket_id = s /\ r.is_active}
\* the handler in slot i takes a step
Steps(i) == tasks[i] # Idle /\ tasks'[i] # tasks[i]
\* the handler in slot i runs to its end in this step
Ends(i) == tasks[i] # Idle /\ tasks'[i] = Idle

\* C1 (as claimed): I1, every socket id is in the membership set of at most one
\* presentation, also when one connection joins two presentations.
I1_OneRoomPerConnection ==
    \A s \in Socks : Cardinality(RoomsOf(activePresentations, s)) <= 1

\* C2 (as claimed): I2, a socket id has a registry entry (socketUsers) if and only
\* if it is a member of exactly one room.
I2_RegistryIffOneRoom ==
    \A s \in Socks :
        MapHas(socketUsers, s) <=> Cardinality(RoomsOf(activePresentations, s)) = 1

\* C3 (as claimed): I4, every room holds open connections only, and no broadcast is
\* emitted to a connection that has closed.
I4_RoomsHoldOpenConnections ==
    /\ \A p \in DOMAIN activePresentations :
           \A s \in activePresentations[p] : conn[s] = "open"
    /\ \A e \in emitted : e.ev \in BroadcastEvents => conn[e.to] = "open"

\* C4: no empty room persists: every key of activePresentations maps to a
\* non-empty set, so a presentation whose last member has gone has no key.
NoEmptyRoom ==
    \A p \in DOMAIN activePresentations : activePresentations[p] # {}

\* C4 witness: a connection joined a presentation that still exists, has
\* disconnected and been cleaned up, and the presentation has no room any more.
LastMemberGone ==
    \E r \in dbUsers :
        /\ ~r.is_active
        /\ conn[r.socket_id] = "closed"
        /\ ~MapHas(socketUsers, r.socket_id)
        /\ MapHas(dbPres, r.presentation_id)
        /\ ~MapHas(activePresentations, r.presentation_id)

\* C5: a join-presentation for an id the store does not hold creates no session,
\* no room entry and no registry binding: the store answers the read without
\* writing, and the handler only sends an error to the joiner and ends.
JoinNotFoundChangesNothing ==
    [][\A i \in Slots :
         (tasks[i].kind = "join-presentation" /\ tasks[i].pc = "getPresentationById" /\ Steps(i))
         => /\ (tasks[i].st = "call" /\ ~MapHas(dbPres, tasks[i].pid))
                => (tasks'[i].st \in {"null", "err"} /\ UNCHANGED <<memVars, dbVars>>)
            /\ tasks[i].st = "null"
                => /\ Ends(i)
                   /\ emitted' = {Event(tasks[i].sock, tasks[i].sock,
                                        "error: Presentation not found", 0)}
                   /\ UNCHANGED <<memVars, dbVars>>]_vars

\* C5 witness: the joiner has just been told that the presentation was not found,
\* and there is no session, no room and no binding.
JoinNotFoundReported ==
    \E e \in emitted :
        /\ e.ev = "error: Presentation not found"
        /\ dbUsers = {}
        /\ activePresentations = EmptyMap
        /\ socketUsers = EmptyMap /\ userSockets = EmptyMap

\* C6 (as claimed): when a join ends with 'Failed to join presentation', the
\* session that join created, if any, is not active, and the connection is not
\* bound to it nor left in the room by it.
JoinFailureLeavesNoPartialState ==
    [][\A i \in Slots :
         (tasks[i].kind = "join-presentation" /\ Ends(i)
            /\ \E e \in emitted' : e.ev = "error: Failed to join presentation")
         => \/ tasks[i].uid = 0
            \/ /\ \A r \in dbUsers' : r.id = tasks[i].uid => ~r.is_active
               /\ ~(MapHas(socketUsers', tasks[i].sock)
                      /\ socketUsers'[tasks[i].sock] = tasks[i].uid)
               /\ ~MapHas(userSockets', tasks[i].uid)
               /\ tasks[i].sock \notin Members(activePresentations', tasks[i].pid)]_vars

\* C7 (as claimed): when a leave or a disconnect handler ends, whether its store
\* call succeeded or threw, the connection is out of the room and the registry.
CleanupDespiteStoreError ==
    [][\A i \in Slots :
         (tasks[i].kind \in {"leave-presentation", "disconnect"} /\ Ends(i))
         => /\ ~MapHas(socketUsers', tasks[i].sock)
            /\ ~MapHas(userSockets', tasks[i].uid)
            /\ IF tasks[i].kind = "disconnect"
               THEN RoomsOf(activePresentations', tasks[i].sock) = {}
               ELSE tasks[i].sock \notin Members(activePresentations', tasks[i].pid)]_vars

\* C8 (as claimed): when the disconnect handler of a member of P ends, P has one
\* member less, the disconnected socket is not among them, and it has no entry in
\* socketUsers.
DisconnectRemovesOneMember ==
    [][\A i \in Slots :
         (tasks[i].kind = "disconnect" /\ Ends(i))
         => /\ \A p \in RoomsOf(activePresentations, tasks[i].sock) :
                   /\ Members(activePresentations', p) = activePresentations[p] \ {tasks[i].sock}
                   /\ Cardinality(Members(activePresentations', p))
                          = Cardinality(activePresentations[p]) - 1
            /\ ~MapHas(socketUsers', tasks[i].sock)]_vars

\* the handler in slot i broadcasts in this step: its last store call has answered
\* without an error, and it ends
Broadcasts(i) ==
    /\ tasks[i].kind \in PassThroughKinds \cup {"PUT"}
    /\ Ends(i)
    /\ tasks[i].st # "err"
    /\ ~(tasks[i].pc = "getPresentationById" /\ tasks[i].st = "null")

\* C9 (as claimed): a broadcast is not delivered to the excluded sender: the
\* originator of a pass-through action does not receive the action's broadcast.
BroadcastExcludesSender ==
    \A e \in emitted : e.ev \in BroadcastEvents => e.to # e.from

\* C9 (amended): broadcastToPresentation has no exclusion set; a broadcast for P is
\* emitted to every socket id in P's membership set, the originator included, and
\* to no other socket id, and it changes no state; when P has no room, nothing is
\* emitted.
BroadcastReachesTheRoom ==
    [][\A i \in Slots :
         Broadcasts(i)
         => /\ {e.to : e \in emitted'} = Members(activePresentations, tasks[i].pid)
            /\ \A e \in emitted' : e.ev \in BroadcastEvents /\ e.from = tasks[i].sock
            /\ UNCHANGED <<memVars, dbVars>>]_vars

\* C9 witness: a member's action has been broadcast to itself and to another
\* member.
BroadcastSeenByAllMembers ==
    \E e1, e2 \in emitted :
        /\ e1.ev \in AppliedEvents /\ e2.ev = e1.ev
        /\ e1.to = e1.from
        /\ e2.to # e2.from

\* C10: the broadcast of a pass-through action or of PUT is emitted only after the
\* action's store mutation has been committed.
BroadcastAfterCommit ==
    [][\A i \in Slots :
         (tasks[i].kind \in PassThroughKinds \cup {"PUT"} /\ Steps(i)
            /\ \E e \in emitted' : e.ev \in BroadcastEvents)
         => tasks[i].committed]_vars

\* C10 witness: current-slide-updated has been broadcast and the store holds the
\* new index.
BroadcastOfCommittedUpdate ==
    \E e \in emitted : \E p \in DOMAIN dbPres :
        /\ e.ev = "current-slide-updated"
        /\ e.arg = 1
        /\ dbPres[p].current_slide_index = 1

\* the store mutation a handler awaits: the one of its kind, and the insert of a join
MutationOf(kind) ==
    IF kind = "join-presentation" THEN "addUserToPresentation" ELSE HandlerOf(kind).method

\* C11: when the store mutation of a pass-through action or of a join has failed,
\* the handler's next step sends exactly one event, an error, to the connection the
\* action came from, and ends: no other connection is sent anything for it.
FailedMutationTellsSenderOnly ==
    [][\A i \in Slots :
         (/\ tasks[i].kind \in PassThroughKinds \cup {"join-presentation"}
          /\ tasks[i].pc = MutationOf(tasks[i].kind)
          /\ Steps(i))
         => /\ tasks[i].st = "call" => emitted' = {}
            /\ tasks[i].st = "err"
                => /\ Ends(i)
                   /\ Cardinality(emitted') = 1
                   /\ \A e \in emitted' :
                          /\ e.to = tasks[i].sock
                          /\ e.from = tasks[i].sock
                          /\ e.ev = IF tasks[i].kind = "join-presentation"
                                    THEN "error: Failed to join presentation"
                                    ELSE HandlerOf(tasks[i].kind).failed
                   /\ UNCHANGED <<memVars, dbVars>>]_vars

\* C11 witness: a member of a room with two members has just been told that its
\* action failed, and nobody else has been sent anything.
FailureToldToSender ==
    \E e \in emitted : \E p \in DOMAIN activePresentations :
        /\ emitted = {e}
        /\ e.ev \in {h.failed : h \in Handlers}
        /\ e.to \in activePresentations[p]
        /\ activePresentations[p] # {e.to}

\* C11 witness for the join: a joiner has been told that its join failed when
\* the insert of its session failed, a member being in the room.
JoinFailureToldToJoiner ==
    \E e \in emitted : \E p \in DOMAIN activePresentations :
        /\ emitted = {e}
        /\ e.ev = "error: Failed to join presentation"
        /\ e.to \notin activePresentations[p]

\* the session a leave or a disconnect handler is about: the one its payload
\* names, or the one its connection was bound to when the handler started
SessionsOf(t) ==
    IF t.kind = "disconnect"
    THEN {r \in dbUsers : r.id = t.uid /\ r.socket_id = t.sock}
    ELSE {r \in dbUsers : r.id = t.uid /\ r.presentation_id = t.pid}

\* C12: leave and disconnect go durable, then memory, then notice: the step in
\* which the store executes the update touches neither the registry nor the rooms
\* and sends nothing; the step that removes the connection from socketUsers,
\* userSockets or its room, or sends user-left, is taken after the handler's store
\* update has committed, with the session it is about inactive in the store, and
\* the notice goes out with the connection already removed, to others only.
DurableThenMemoryThenNotify ==
    [][\A i \in Slots :
         (tasks[i].kind \in {"leave-presentation", "disconnect"} /\ Steps(i))
         => /\ tasks[i].st = "call"
                => /\ UNCHANGED <<activePresentations, userSockets, socketUsers>>
                   /\ emitted' = {}
            /\ (\/ <<activePresentations, userSockets, socketUsers>>'
                      # <<activePresentations, userSockets, socketUsers>>
                \/ emitted' # {})
                => /\ tasks[i].committed
                   /\ \A r \in SessionsOf(tasks[i]) : ~r.is_active
                   /\ UNCHANGED dbVars
                   /\ ~MapHas(socketUsers', tasks[i].sock)
                   /\ ~MapHas(userSockets', tasks[i].uid)
                   /\ \A e \in emitted' :
                          /\ e.ev = "user-left"
                          /\ e.from = tasks[i].sock
                          /\ e.to # tasks[i].sock
                          /\ e.to \notin {x \in Socks : conn[x] = "closed"}
                               \/ e.to \in UNION {ioRooms[p] : p \in Pres}]_vars

\* C12 witness: a member has left: its session is inactive in the store, it has no
\* binding and is in no room, and the other member has been sent user-left.
LeftAfterStoreUpdate ==
    \E e \in emitted : \E r \in dbUsers :
        /\ e.ev = "user-left"
        /\ conn[e.from] = "open"
        /\ r.id = e.arg /\ r.socket_id = e.from /\ ~r.is_active
        /\ ~MapHas(socketUsers, e.from)
        /\ RoomsOf(activePresentations, e.from) = {}
        /\ e.to \in Members(activePresentations, r.presentation_id)

\* C13: the disconnect of a connection that has no entry in socketUsers is a
\* no-op: no handler is left awaiting the store, activePresentations, socketUsers,
\* userSockets and the store are unchanged, and nothing is emitted.
UnboundDisconnectIsNoOp ==
    [][\A s \in Socks :
         (conn[s] = "open" /\ conn'[s] = "closed" /\ ~MapHas(socketUsers, s))
         => /\ tasks' = tasks
            /\ UNCHANGED <<activePresentations, socketUsers, userSockets, dbVars>>
            /\ emitted' = {}]_vars

\* C13 witness: a connection that never joined has closed while another one is a
\* member of a room, and no handler is in flight.
NeverJoinedDisconnected ==
    \E s \in Socks :
        /\ conn[s] = "closed"
        /\ \A r \in dbUsers : r.socket_id # s
        /\ DOMAIN dbPres = Pres
        /\ Busy = {}
        /\ \E x \in Socks \ {s} : MapHas(socketUsers, x) /\ RoomsOf(activePresentations, x) # {}

\* C14: a disconnect is keyed by the socket id alone: every step of the disconnect
\* handler of connection C leaves the sessions of the other socket ids as they are
\* and changes sessions of C only by making them inactive, and leaves the entries
\* of the other connections in socketUsers and userSockets and their room
\* memberships as they are.
DisconnectTouchesOnlyItself ==
    [][\A i \in Slots :
         (tasks[i].kind = "disconnect" /\ Steps(i))
         => LET c == tasks[i].sock IN
            /\ \A r \in dbUsers : r.socket_id # c => r \in dbUsers'
            /\ \A r \in dbUsers' :
                   \/ r \in dbUsers
                   \/ r.socket_id = c /\ ~r.is_active /\ [r EXCEPT !.is_active = TRUE] \in dbUsers
            /\ Cardinality({r.id : r \in dbUsers'}) = Cardinality({r.id : r \in dbUsers})
            /\ \A x \in Socks \ {c} :
                   /\ MapHas(socketUsers', x) <=> MapHas(socketUsers, x)
                   /\ MapHas(socketUsers, x) => socketUsers'[x] = socketUsers[x]
            /\ \A u \in DOMAIN userSockets :
                   userSockets[u] # c => MapHas(userSockets', u) /\ userSockets'[u] = userSockets[u]
            /\ DOMAIN userSockets' \subseteq DOMAIN userSockets
            /\ \A p \in Pres :
                   Members(activePresentations', p) \ {c} = Members(activePresentations, p) \ {c}
            /\ \A e \in emitted' : e.ev = "user-left" /\ e.from = c /\ e.to # c]_vars

\* C14 witness: of two members of a room one has disconnected and been cleaned
\* up; the other is still bound, in the room, with its session active.
OtherMemberUntouched ==
    \E r1, r2 \in dbUsers :
        /\ r1.presentation_id = r2.presentation_id
        /\ r1.socket_id # r2.socket_id
        /\ conn[r1.socket_id] = "closed" /\ ~r1.is_active
        /\ ~MapHas(socketUsers, r1.socket_id)
        /\ r2.is_active
        /\ MapHas(socketUsers, r2.socket_id) /\ socketUsers[r2.socket_id] = r2.id
        /\ Members(activePresentations, r2.presentation_id) = {r2.socket_id}
        /\ \E e \in emitted : e.ev = "user-left" /\ e.to = r2.socket_id

\* C15 (as claimed): reconnect: when the join of connection Y to P under a nickname
\* completes, no other connection X is left joined to P for the same participant,
\* that is bound in P's room to an older session of that nickname that is still
\* active: X has been put through disconnect before Y's join completes.
ReconnectLeavesOneConnection ==
    [][\A i \in Slots :
         (/\ tasks[i].kind = "join-presentation"
          /\ Ends(i)
          /\ \E e \in emitted' : e.ev = "presentation-joined")
         => \A r \in dbUsers' :
                (/\ r.presentation_id = tasks[i].pid
                 /\ r.nickname = tasks[i].val
                 /\ r.socket_id # tasks[i].sock
                 /\ r.id < tasks[i].uid)
                => ~(/\ r.is_active
                     /\ conn[r.socket_id] = "open"
                     /\ MapHas(socketUsers', r.socket_id)
                     /\ socketUsers'[r.socket_id] = r.id
                     /\ r.socket_id \in Members(activePresentations', tasks[i].pid))]_vars

\* C16: when the join of connection C to P succeeds, the snapshot event
\* presentation-joined is sent once, to C and to nobody else, and user-joined is
\* sent to every open connection that is a member of P besides C, and not to C.
SnapshotToJoinerNoticeToOthers ==
    [][\A i \in Slots :
         (/\ tasks[i].kind = "join-presentation"
          /\ tasks[i].pc = "getPresentationUsers"
          /\ tasks[i].st = "ok"
          /\ Steps(i))
         => LET c == tasks[i].sock
                snapshots == {e \in emitted' : e.ev = "presentation-joined"}
                notices == {e \in emitted' : e.ev = "user-joined"}
            IN  /\ Ends(i)
                /\ emitted' = snapshots \cup notices
                /\ snapshots = {Event(c, c, "presentation-joined", tasks[i].uid)}
                /\ \A e \in notices : e.to # c /\ e.from = c /\ e.arg = tasks[i].uid
                /\ \A x \in Members(activePresentations, tasks[i].pid) \ {c} :
                       conn[x] = "open" => x \in {e.to : e \in notices}]_vars

\* C16 witness: a connection has joined a room that had a member: it has been
\* sent the snapshot and the member the notice.
JoinedNextToMember ==
    \E e1, e2 \in emitted :
        /\ e1.ev = "presentation-joined" /\ e1.to = e1.from
        /\ e2.ev = "user-joined" /\ e2.from = e1.to /\ e2.to # e1.to
        /\ \E p \in DOMAIN activePresentations : {e1.to, e2.to} \subseteq activePresentations[p]

\* connection x is joined to p: open, bound to a session of p, in p's room, and
\* neither leaving nor being cleaned up
JoinedTo(x, p) ==
    /\ conn[x] = "open"
    /\ MapHas(socketUsers, x)
    /\ x \in Members(activePresentations, p)
    /\ \E r \in dbUsers : r.id = socketUsers[x] /\ r.presentation_id = p /\ r.socket_id = x
    /\ \A j \in Slots : tasks[j].kind \in {"leave-presentation", "disconnect"} => tasks[j].sock # x

\* C17 (as claimed): the member list of a joiner's snapshot, read by
\* getPresentationUsers, holds the joiner's own new session (the joiner being still
\* joined, and its join having taken no time), the session of every other
\* connection that is joined to the presentation at that time, and no session that
\* has been made inactive by a leave or a disconnect.
SnapshotListsTheMembers ==
    [][\A i \in Slots :
         (/\ tasks[i].kind = "join-presentation"
          /\ tasks[i].pc = "getPresentationUsers"
          /\ tasks[i].st = "call"
          /\ tasks'[i].st = "ok")
         => /\ (/\ JoinedTo(tasks[i].sock, tasks[i].pid)
                /\ socketUsers[tasks[i].sock] = tasks[i].uid
                /\ \A r \in dbUsers : r.id = tasks[i].uid => r.last_seen = now)
                => tasks[i].uid \in tasks'[i].users
            /\ \A x \in Socks \ {tasks[i].sock} :
                   JoinedTo(x, tasks[i].pid) => socketUsers[x] \in tasks'[i].users
            /\ \A r \in dbUsers : ~r.is_active => r.id \notin tasks'[i].users]_vars

\* C18: a sweep with threshold 30 minutes, started when the clock reads t, makes
\* inactive exactly the active sessions last seen more than 30 minutes before t,
\* and leaves every other session as it is: one last seen 31 minutes before t
\* becomes inactive, one last seen 29 or exactly 30 minutes before t stays active.
SweepMarksTheStale ==
    [][\A i \in Slots :
         (/\ tasks[i].kind = "reaper"
          /\ tasks[i].st = "call"
          /\ tasks'[i].st = "ok")
         => /\ \A r \in dbUsers :
                   LET age == tasks[i].arg - r.last_seen IN
                   /\ (r.is_active /\ age > 30 * MsPerMinute)
                          => r \notin dbUsers' /\ [r EXCEPT !.is_active = FALSE] \in dbUsers'
                   /\ (~r.is_active \/ age <= 30 * MsPerMinute) => r \in dbUsers'
                   /\ (r.is_active /\ age = 31 * MsPerMinute) => r \notin dbUsers'
                   /\ age \in {29 * MsPerMinute, 30 * MsPerMinute} => r \in dbUsers'
            /\ {r.id : r \in dbUsers'} = {r.id : r \in dbUsers}
            /\ Cardinality(dbUsers') = Cardinality(dbUsers)
            /\ UNCHANGED <<dbPres, dbSlides, dbBlocks, nextId>>]_vars

\* C18 witness: a sweep started 31 minutes after one session and 29 minutes after
\* another were last seen has made the first inactive and left the second active.
SweptAt31And29Minutes ==
    \E i \in Slots : \E r1, r2 \in dbUsers :
        /\ tasks[i].kind = "reaper" /\ tasks[i].committed
        /\ tasks[i].arg - r1.last_seen = 31 * MsPerMinute /\ ~r1.is_active
        /\ tasks[i].arg - r2.last_seen = 29 * MsPerMinute /\ r2.is_active

\* C19: a sweep never touches the memory of the server, whatever join, leave and
\* disconnect handlers it runs between: the firing of the timer and every step of
\* a sweep leave activePresentations, socketUsers, userSockets and the socket.io
\* rooms as they are and send nothing to any connection; in the store a sweep
\* only turns the active flag of sessions off.
SweepLeavesMemoryAlone ==
    [][\A i \in Slots :
         (tasks'[i].kind = "reaper" \/ tasks[i].kind = "reaper") /\ tasks'[i] # tasks[i]
         => /\ UNCHANGED <<activePresentations, socketUsers, userSockets, ioRooms, conn>>
            /\ UNCHANGED <<dbPres, dbSlides, dbBlocks, nextId>>
            /\ \A r \in dbUsers :
                   r \in dbUsers' \/ (r.is_active /\ [r EXCEPT !.is_active = FALSE] \in dbUsers')
            /\ Cardinality(dbUsers') = Cardinality(dbUsers)
            /\ \A e \in emitted' : e.to \notin Socks]_vars

\* C19 witness: a sweep has made the session of a member inactive while a join,
\* leave or disconnect handler is in flight; the member is still open, bound to
\* that session and in its room.
SweptWhileHandlersRun ==
    \E i, j \in Slots : \E r \in dbUsers :
        /\ tasks[i].kind = "reaper" /\ tasks[i].committed
        /\ tasks[j].kind \in {"join-presentation", "leave-presentation", "disconnect"}
        /\ ~r.is_active /\ r.last_seen < tasks[i].val
        /\ tasks[j].sock # r.socket_id
        /\ conn[r.socket_id] = "open"
        /\ MapHas(socketUsers, r.socket_id) /\ socketUsers[r.socket_id] = r.id
        /\ r.socket_id \in Members(activePresentations, r.presentation_id)

\* the sessions a sweep with this threshold has to make inactive
StaleSessions(users, thresholdTime) ==
    {r \in users : r.is_active /\ r.last_seen < thresholdTime}

\* C20 (as claimed): a store error in a sweep is logged and contained, changes no
\* memory, and does not keep the remaining stale sessions from being processed:
\* when the failed pass ends, at most the one session whose update failed is
\* still stale and active.
SweepErrorSparesTheOthers ==
    [][\A i \in Slots :
         (tasks[i].kind = "reaper" /\ tasks[i].st = "err" /\ Ends(i))
         => /\ UNCHANGED <<memVars, conn>>
            /\ \A e \in emitted' : e.to \notin Socks
            /\ Cardinality(StaleSessions(dbUsers', tasks[i].val)) <= 1]_vars

\* C20 (amended): a store error in a sweep is logged and contained: the callback
\* writes one line to the console and returns, no memory changes, and the timer is
\* as it was, so later sweeps run; the sweep being one update, the failed pass has
\* processed no session at all: every stale session is still active after it.
SweepErrorIsContained ==
    [][\A i \in Slots :
         (/\ tasks[i].kind = "reaper"
          /\ Steps(i)
          /\ tasks[i].st = "err" \/ tasks'[i].st = "err")
         => /\ UNCHANGED <<memVars, conn, dbVars, timerVars, budget>>
            /\ tasks[i].st = "call" => emitted' = {}
            /\ tasks[i].st = "err"
                => /\ Ends(i)
                   /\ emitted' = {Event(0, 0, "console.error: Failed to cleanup inactive users", 0)}
                   /\ \A j \in Slots \ {i} : tasks'[j] = tasks[j]]_vars

\* C20 witness: a sweep has just failed and been logged with two stale sessions
\* in the store, both still active, and their connections still bound.
FailedSweepLogged ==
    /\ \E e \in emitted : e.ev = "console.error: Failed to cleanup inactive users"
    /\ Cardinality(StaleSessions(dbUsers, thresholdTimeAt(now, InactiveThresholdMinutes))) = 2
    /\ \A r \in dbUsers : MapHas(socketUsers, r.socket_id)
    /\ sweeps < MaxSweeps

\* a join, leave or disconnect handler of connection x is in flight
PresenceHandlerOf(x) ==
    \E j \in Slots :
        /\ tasks[j].kind \in {"join-presentation", "leave-presentation", "disconnect"}
        /\ tasks[j].sock = x

\* C21 (as claimed): I3, every session that is active in the store, no leave or
\* disconnect handler of its connection being in flight (nor a join of it, which
\* is about to bind it), belongs to a connection that is open, has an entry in
\* socketUsers and is a member of the room of the session's presentation.
I3_ActiveSessionIsLive ==
    \A r \in dbUsers :
        (r.is_active /\ ~PresenceHandlerOf(r.socket_id))
        => /\ conn[r.socket_id] = "open"
           /\ MapHas(socketUsers, r.socket_id)
           /\ r.socket_id \in Members(activePresentations, r.presentation_id)

\* C22: the operations of the room index are idempotent: for every room index the
\* server reaches, every presentation P and every connection c, adding c to P
\* twice gives the index that adding it once gives, and removing c from P when c
\* is not a member of P, or P has no room, gives the index back unchanged.
RoomIndexIsIdempotent ==
    \A p \in Pres, c \in Socks :
        LET once == addSocketToPresentation(activePresentations, p, c) IN
        /\ addSocketToPresentation(once, p, c) = once
        /\ c \in Members(once, p)
        /\ c \notin Members(activePresentations, p)
               => removeSocketFromPresentation(activePresentations, p, c) = activePresentations

\* C22 witness: a connection has joined the same presentation twice and is in its
\* room once, and another open connection is not a member of that room.
JoinedTwiceInRoomOnce ==
    \E r1, r2 \in dbUsers : \E d \in Socks :
        /\ r1.id # r2.id
        /\ r1.socket_id = r2.socket_id
        /\ r1.presentation_id = r2.presentation_id
        /\ Busy = {}
        /\ Members(activePresentations, r1.presentation_id) = {r1.socket_id}
        /\ d # r1.socket_id /\ conn[d] = "open"

\* a join-presentation handler that has not yet written the registry and the room
JoinBeforeTracking(j) ==
    /\ tasks[j].kind = "join-presentation"
    /\ tasks[j].pc \in {"getPresentationById", "addUserToPresentation"}

\* C23: two joins of the same presentation P by two connections are independent:
\* whenever the server has accepted two events from start, both have inserted a
\* session of P, for two different connections that are still open, and both
\* handlers have passed their store insert, in whatever order their awaits were
\* answered, both sessions are active, P's room holds exactly the two connections,
\* each connection is bound to its own session and each session to its
\* connection: the memory either sequential order ends with.
ConcurrentJoinsAreIndependent ==
    \A ra, rb \in dbUsers :
        (/\ requests = 2
         /\ ra.socket_id # rb.socket_id
         /\ ra.presentation_id = rb.presentation_id
         /\ conn[ra.socket_id] = "open" /\ conn[rb.socket_id] = "open"
         /\ \A j \in Slots : ~JoinBeforeTracking(j))
        => /\ ra.id # rb.id
           /\ {ra.id, rb.id} = {NumPres + 1, NumPres + 2}
           /\ ra.is_active /\ rb.is_active
           /\ dbUsers = {ra, rb}
           /\ activePresentations =
                  [p \in {ra.presentation_id} |-> {ra.socket_id, rb.socket_id}]
           /\ ioRooms[ra.presentation_id] = {ra.socket_id, rb.socket_id}
           /\ socketUsers = [s \in {ra.socket_id, rb.socket_id} |->
                                 IF s = ra.socket_id THEN ra.id ELSE rb.id]
           /\ userSockets = [u \in {ra.id, rb.id} |->
                                 IF u = ra.id THEN ra.socket_id ELSE rb.socket_id]

\* C23 witness: two joins of one presentation by two connections are in flight
\* together, both awaiting the member list, the one that started first having got
\* the later session, and the room holds both connections.
JoinsOverlapped ==
    \E i, j \in Slots :
        /\ i < j
        /\ tasks[i].kind = "join-presentation" /\ tasks[j].kind = "join-presentation"
        /\ tasks[i].pc = "getPresentationUsers" /\ tasks[j].pc = "getPresentationUsers"
        /\ tasks[i].sock # tasks[j].sock
        /\ tasks[i].pid = tasks[j].pid
        /\ tasks[i].uid > tasks[j].uid
        /\ requests = 2
        /\ Members(activePresentations, tasks[i].pid) = {tasks[i].sock, tasks[j].sock}

\* connection b has an update-current-slide for p with index v in flight whose
\* store call is in the state st
SlideUpdateOf(b, p, v, st) ==
    \E i \in Slots :
        /\ tasks[i].kind = "update-current-slide"
        /\ tasks[i].sock = b /\ tasks[i].pid = p /\ tasks[i].val = v
        /\ tasks[i].st = st

\* C24: a store call of a handler of connection 1 that never returns delays that
\* handler only: the store answering the calls of the other connections and their
\* handlers being resumed, an update-current-slide that another connection B, a
\* member of P, sends for P at any time has its store update applied and its
\* broadcast emitted (to B among others), unless the store reports an error for
\* that very call.
StalledCallDelaysOnlyItsHandler ==
    \A b \in Socks \ {1} : \A p \in Pres : \A v \in 0..(MaxActions - 1) :
        (SlideUpdateOf(b, p, v, "call") /\ b \in Members(activePresentations, p))
        ~> (\/ Event(b, b, "current-slide-updated", v) \in emitted
            \/ SlideUpdateOf(b, p, v, "err"))

\* C24 witness: the update of connection 1 arrived first and still awaits the
\* store; the update that another member sent after it has been applied and its
\* broadcast emitted.
BroadcastPastStalledCall ==
    \E p, q \in Pres : \E b \in Socks \ {1} :
        /\ SlideUpdateOf(1, q, 0, "call")
        /\ Event(b, b, "current-slide-updated", 1) \in emitted
        /\ b \in Members(activePresentations, p)
        /\ dbPres[p].current_slide_index = 1

\* C25 (as claimed): the events of one connection are processed in arrival order:
\* when connection C has sent update-current-slide e1 and then e2 for the
\* presentation it is a member of and both handlers are in flight, the store does not apply e2's
\* update before e1's, and e2's broadcast is not emitted while e1, whose store
\* call has not failed, has yet to emit its own.
EventsInArrivalOrder ==
    [][\A e1, e2 \in Slots :
         (/\ tasks[e1].kind = "update-current-slide"
          /\ tasks[e2].kind = "update-current-slide"
          /\ tasks[e1].sock = tasks[e2].sock
          /\ tasks[e1].pid = tasks[e2].pid
          /\ tasks[e1].sock \in Members(activePresentations, tasks[e1].pid)
          /\ tasks[e1].val < tasks[e2].val)
         => /\ (~tasks[e2].committed /\ tasks'[e2].committed) => tasks[e1].committed
            /\ (Broadcasts(e2) /\ emitted' # {}) => tasks[e1].st = "err"]_vars

\* C26 (as claimed): no stale or duplicate presence view: when the store answers
\* the getPresentationUsers of a join to P, no other handler being in flight, the
\* sessions it lists and the connections in P's membership set correspond one to
\* one: every member connection has exactly one listed session, and every listed
\* session is the session of a member connection.
PresenceViewMatchesRoom ==
    [][\A i \in Slots :
         (/\ tasks[i].kind = "join-presentation"
          /\ tasks[i].pc = "getPresentationUsers"
          /\ tasks[i].st = "call"
          /\ tasks'[i].st = "ok"
          /\ Busy = {i})
         => LET listed == {r \in dbUsers : r.id \in tasks'[i].users}
                members == Members(activePresentations, tasks[i].pid)
            IN  /\ \A x \in members : Cardinality({r \in listed : r.socket_id = x}) = 1
                /\ \A r \in listed : r.socket_id \in members]_vars

\* C27 (as claimed): userSockets and socketUsers are mutual inverses in every
\* state, taken here between the handlers, when none is in flight:
\* userSockets[u] = s if and only if socketUsers[s] = u.
RegistryMapsAreInverse ==
    Busy = {}
    => /\ \A u \in DOMAIN userSockets :
              MapHas(socketUsers, userSockets[u]) /\ socketUsers[userSockets[u]] = u
       /\ \A s \in DOMAIN socketUsers :
              MapHas(userSockets, socketUsers[s]) /\ userSockets[socketUsers[s]] = s

\* C28 (as claimed): a leave-presentation of connection C affects C only, whatever
\* presentationId and userId it carries (the userId being none or that of a
\* session some connection is bound to): every step of its handler changes no
\* session but one of C, leaves the registry entries and the room memberships of
\* the other connections as they are, and, when C is not a member of the room of
\* the presentation it names, changes no memory and sends nothing.
LeaveAffectsOnlyItsConnection ==
    [][\A i \in Slots :
         (/\ tasks[i].kind = "leave-presentation"
          /\ Steps(i)
          /\ tasks[i].uid = 0 \/ MapHas(userSockets, tasks[i].uid))
         => LET c == tasks[i].sock IN
            /\ \A r \in dbUsers : r.socket_id # c => r \in dbUsers'
            /\ \A x \in DOMAIN socketUsers : x # c => MapHas(socketUsers', x)
            /\ \A u \in DOMAIN userSockets : userSockets[u] # c => MapHas(userSockets', u)
            /\ \A p \in Pres :
                   Members(activePresentations', p) \ {c} = Members(activePresentations, p) \ {c}
            /\ c \notin Members(activePresentations, tasks[i].pid)
                   => UNCHANGED memVars /\ emitted' = {}]_vars

\* the join in slot j has read the presentation, found it, and is in progress
JoinHasRead(j) ==
    /\ tasks[j].kind = "join-presentation"
    /\ \/ tasks[j].pc = "getPresentationById" /\ tasks[j].st = "ok"
       \/ tasks[j].pc \in {"addUserToPresentation", "getPresentationUsers"}

\* C29 (as claimed): a joiner never misses an edit: when the broadcast of a
\* member's committed update-current-slide of P is emitted while a join of C to
\* P is in progress that has read the presentation, the presentation it has read
\* shows the new slide index or the broadcast is sent to C: no edit is committed
\* after the join read the presentation and broadcast before C is added to the
\* room.
JoinerMissesNoEdit ==
    [][\A i, j \in Slots :
         (/\ tasks[i].kind = "update-current-slide"
          /\ Broadcasts(i)
          /\ tasks[i].committed
          /\ tasks[i].sock \in Members(activePresentations, tasks[i].pid) \ {tasks[j].sock}
          /\ JoinHasRead(j)
          /\ tasks[j].pid = tasks[i].pid
          /\ tasks[j].arg # tasks[i].val)
         => tasks[j].sock \in {e.to : e \in emitted'}]_vars

\* C30: the active flag of a session is monotone: no step of a join, leave,
\* disconnect, update-user-role or sweep turns a session of the store from
\* inactive to active or takes a session out of the store, and an active session
\* comes into the store only as a new row with a fresh id, inserted by a join.
ActiveFlagIsMonotone ==
    [][/\ \A r \in dbUsers :
              \E r2 \in dbUsers' : r2.id = r.id /\ (r2.is_active => r.is_active)
       /\ Cardinality(dbUsers') = Cardinality({r.id : r \in dbUsers'})
       /\ \A r2 \in dbUsers' :
              r2.id \notin {r.id : r \in dbUsers}
              => /\ r2.is_active
                 /\ r2.id > nextId
                 /\ \E i \in Slots :
                        /\ tasks[i].kind = "join-presentation"
                        /\ tasks[i].pc = "addUserToPresentation"
                        /\ tasks'[i].uid = r2.id]_vars

\* C30 witness: a connection whose session a sweep has made inactive has joined
\* again: its old session is still inactive and it has a new, active one.
ActiveAgainByNewSession ==
    \E r1, r2 \in dbUsers :
        /\ r1.socket_id = r2.socket_id
        /\ r1.nickname = r2.nickname
        /\ r1.id < r2.id
        /\ ~r1.is_active /\ r2.is_active
        /\ sweeps = MaxSweeps
        /\ r2.last_seen - r1.last_seen > InactiveThresholdMinutes * MsPerMinute

\* C31 (as claimed): peers converge to the stored value: when the broadcast of an
\* update-current-slide of P is emitted to P's room and no other handler for P is
\* left in flight, so that it is the last broadcast of the updates of P, the slide
\* index it carries is the one the store holds.
LastBroadcastIsStoredValue ==
    [][\A i \in Slots :
         (/\ tasks[i].kind = "update-current-slide"
          /\ Broadcasts(i)
          /\ emitted' # {}
          /\ \A j \in Slots \ {i} : tasks[j].pid # tasks[i].pid)
         => /\ \A e \in emitted' : e.arg = tasks[i].val
            /\ tasks[i].val = dbPres'[tasks[i].pid].current_slide_index]_vars

\* C32 (as claimed): the two membership structures agree: in every state with no
\* handler in flight and no connection closed, the socket.io room of every
\* presentation P holds the connections of activePresentations[P] and no other.
RoomStructuresAgree ==
    (Busy = {} /\ \A s \in Socks : conn[s] # "closed")
    => \A p \in Pres : ioRooms[p] = Members(activePresentations, p)

\* a handler started for connection x is in flight
HandlerOfConnection(x) == \E j \in Slots : tasks[j] # Idle /\ tasks[j].sock = x

\* C33 (as claimed): no presence leak: the store executing every call, a
\* connection that has closed and has no handler left in flight is in no room and
\* has no entry in socketUsers or userSockets.
ClosedConnectionLeavesNoTrace ==
    \A x \in Socks :
        (conn[x] = "closed" /\ ~HandlerOfConnection(x))
        => /\ RoomsOf(activePresentations, x) = {}
           /\ ~MapHas(socketUsers, x)
           /\ \A u \in DOMAIN userSockets : userSockets[u] # x

=============================================================================
